---- MODULE Spec2Model ----
(***************************************************************************)
(* gl3w-mx: gl3w_gen.py extracts the GLAPI ... APIENTRY declarations of     *)
(* glcorearb.h, sorts them and emits gl3w.h / gl3w.c.  The emitted gl3w.c   *)
(* is a per-context loader (gl3wInit, gl3wShutdown, gl3wIsSupported) on top *)
(* of one process-wide library handle.  GenSpec is the generator run, Spec  *)
(* a caller taking records through gl3wInit and gl3wShutdown, QuerySpec a   *)
(* caller asking gl3wIsSupported about records of any content.              *)
(***************************************************************************)
EXTENDS Integers, Sequences, FiniteSets, TLC

VARIABLES
    \* ---- gl3w_gen.py ----
    file,       \* include/GL/glcorearb.h, a sequence of lines (of characters)
    pos,        \* index of the next line the parse loop reads
    procs,      \* the list of captured names
    gpc,        \* position of the script: parse, fields, macros, assigns, done
    k,          \* index of the emission loop that is running
    hFields,    \* gl3w.h: the fields written into struct _GL3WContext
    hMacros,    \* gl3w.h: the #define lines
    cAssigns,   \* gl3w.c: the assignments written into setup_context
    \* ---- emitted gl3w.c ----
    platform,   \* which of the three #ifdef blocks was compiled
    ndebug,     \* whether the build defines NDEBUG (assert compiled out)
    env,        \* what the process can open and resolve, what GL reports
    libgl,      \* the static library handle (bundle on Apple)
    refs,       \* the OS loader's reference count of the library
    urlLive,    \* Apple: the object held in static bundleURL has not been released
    ctx,        \* the caller's GL3WContext records
    pc,         \* position of the caller's thread inside the loader
    cur,        \* the record the running call was given
    i,          \* index of the next assignment of setup_context
    ret,        \* value returned by the last call that returned one
    call,       \* the call that is running or ran last, with its arguments
    hist,       \* per record: the calls that completed on it, oldest first
    trace,      \* steps taken by the running / last gl3wInit call
    first,      \* per record: what its first completed gl3wInit left and returned
    opens, closes, inits, shutdowns,  \* calls made so far
    storedCloses \* times the value now stored in the handle was passed to close

genVars == <<file, pos, procs, gpc, k, hFields, hMacros, cAssigns>>
rtVars  == <<platform, ndebug, env, libgl, refs, urlLive, ctx, pc, cur, i, ret,
             call, hist, trace, first, opens, closes, inits, shutdowns,
             storedCloses>>
vars    == <<genVars, rtVars>>

(***************************************************************************)
(* Bounds                                                                  *)
(***************************************************************************)
MaxLines == 3     \* lines in the header file
MaxCalls == 4     \* gl3wInit + gl3wShutdown calls of one run
MaxMajor == 4     \* largest major version a driver reports / a caller asks for
MaxMinor == 1     \* largest minor version a driver reports / a caller asks for

(***************************************************************************)
(* Characters and strings.  A string is a sequence of one-character        *)
(* strings; Chars lists the characters in code point order, which is the   *)
(* order Python compares str by.                                           *)
(***************************************************************************)
Chars ==
    <<" ","#","(",")","*",";",
      "0","1","2","3","4","5","6","7","8","9",
      "A","B","C","D","E","F","G","H","I","J","K","L","M",
      "N","O","P","Q","R","S","T","U","V","W","X","Y","Z",
      "_",
      "a","b","c","d","e","f","g","h","i","j","k","l","m",
      "n","o","p","q","r","s","t","u","v","w","x","y","z">>

Ord(c) == CHOOSE n \in DOMAIN Chars : Chars[n] = c

Digits == {"0","1","2","3","4","5","6","7","8","9"}
Lowers == <<"a","b","c","d","e","f","g","h","i","j","k","l","m",
            "n","o","p","q","r","s","t","u","v","w","x","y","z">>
Uppers == <<"A","B","C","D","E","F","G","H","I","J","K","L","M",
            "N","O","P","Q","R","S","T","U","V","W","X","Y","Z">>

\* \s and \w of the re module
IsSpace(c) == c = " "
IsWord(c) ==
    \/ c \in Digits
    \/ c = "_"
    \/ \E n \in DOMAIN Lowers : c = Lowers[n] \/ c = Uppers[n]

\* str.upper(), one character
UpperChar(c) ==
    IF \E n \in DOMAIN Lowers : Lowers[n] = c
    THEN Uppers[CHOOSE n \in DOMAIN Lowers : Lowers[n] = c]
    ELSE c

\* str.upper()
upper(s) == [n \in DOMAIN s |-> UpperChar(s[n])]

\* s[2:]
DropTwo(s) == SubSeq(s, 3, Len(s))

\* a < b on str: the first differing character decides, a proper prefix is less
StrLess(a, b) ==
    \E n \in 1..(Len(a) + 1) :
        /\ n <= Len(b)
        /\ \A m \in 1..(n - 1) : a[m] = b[m]
        /\ \/ n = Len(a) + 1
           \/ n <= Len(a) /\ Ord(a[n]) < Ord(b[n])

(***************************************************************************)
(* The pattern GLAPI.*APIENTRY\s+(\w+), matched at the start of the line.  *)
(***************************************************************************)
GLAPI    == <<"G","L","A","P","I">>
APIENTRY == <<"A","P","I","E","N","T","R","Y">>
None     == <<>>

LitAt(line, j, lit) ==
    /\ j + Len(lit) - 1 <= Len(line)
    /\ SubSeq(line, j, j + Len(lit) - 1) = lit

\* length of the longest run of \s (of \w) that starts at j
SpaceRun(line, j) ==
    Cardinality({n \in j..Len(line) : \A m \in j..n : IsSpace(line[m])})
WordRun(line, j) ==
    Cardinality({n \in j..Len(line) : \A m \in j..n : IsWord(line[m])})

\* positions of an APIENTRY that \s+(\w+) can follow
Candidates(line) ==
    {j \in (Len(GLAPI) + 1)..Len(line) :
        /\ LitAt(line, j, APIENTRY)
        /\ SpaceRun(line, j + Len(APIENTRY)) >= 1
        /\ WordRun(line, j + Len(APIENTRY) + SpaceRun(line, j + Len(APIENTRY))) >= 1}

\* p.match(line): group 1, or None.  The greedy .* takes the last candidate.
p_match(line) ==
    IF ~LitAt(line, 1, GLAPI) \/ Candidates(line) = {}
    THEN None
    ELSE LET j == CHOOSE c \in Candidates(line) : \A d \in Candidates(line) : d <= c
             s == j + Len(APIENTRY) + SpaceRun(line, j + Len(APIENTRY))
         IN  SubSeq(line, s, s + WordRun(line, s) - 1)

\* the lines the header file is made of
LineClear  == <<"G","L","A","P","I"," ","v","o","i","d"," ","A","P","I","E","N","T","R","Y"," ","g","l","C","l","e","a","r"," ","(","G","L","b","i","t","f","i","e","l","d"," ","m","a","s","k",")",";">>
LineFlush  == <<"G","L","A","P","I"," ","v","o","i","d"," ","A","P","I","E","N","T","R","Y"," ","g","l","F","l","u","s","h"," ","(","v","o","i","d",")",";">>
LineFinish == <<"G","L","A","P","I"," ","v","o","i","d"," ","A","P","I","E","N","T","R","Y"," ","g","l","F","i","n","i","s","h"," ","(","v","o","i","d",")",";">>
LineGetString == <<"G","L","A","P","I"," ","c","o","n","s","t"," ","G","L","u","b","y","t","e"," ","*","A","P","I","E","N","T","R","Y"," ","g","l","G","e","t","S","t","r","i","n","g"," ","(","G","L","e","n","u","m"," ","n","a","m","e",")",";">>
LineDefine == <<"#","d","e","f","i","n","e"," ","G","L","A","P","I"," ","e","x","t","e","r","n">>
LineTypedef == <<"t","y","p","e","d","e","f"," ","v","o","i","d"," ","(","A","P","I","E","N","T","R","Y","P"," ","P","F","N","G","L","F","L","U","S","H","P","R","O","C",")"," ","(","v","o","i","d",")",";">>
LineNoName == <<"G","L","A","P","I"," ","v","o","i","d"," ","A","P","I","E","N","T","R","Y"," ","(","x",")",";">>
LineTwice  == <<"G","L","A","P","I"," ","v","o","i","d"," ","A","P","I","E","N","T","R","Y"," ","a"," ","(","A","P","I","E","N","T","R","Y"," ","b",")",";">>

Lines == {LineClear, LineFlush, LineFinish, LineGetString,
          LineDefine, LineTypedef, LineNoName, LineTwice}

RECURSIVE SeqsUpTo(_, _)
SeqsUpTo(S, n) ==
    IF n = 0 THEN {<<>>}
    ELSE LET shorter == SeqsUpTo(S, n - 1)
         IN  shorter \cup {Append(s, x) : s \in {t \in shorter : Len(t) = n - 1}, x \in S}

Files == SeqsUpTo(Lines, MaxLines)

(***************************************************************************)
(* procs.sort() and proc_t                                                 *)
(***************************************************************************)
RECURSIVE Insert(_, _)
Insert(x, s) ==
    IF s = <<>> THEN <<x>>
    ELSE IF StrLess(x, Head(s)) THEN <<x>> \o s
    ELSE <<Head(s)>> \o Insert(x, Tail(s))

\* list.sort(): ascending, equal names keep their order
RECURSIVE sort(_)
sort(s) ==
    IF s = <<>> THEN <<>>
    ELSE Insert(s[Len(s)], sort(SubSeq(s, 1, Len(s) - 1)))

Gl3wPrefix == <<"g","l","3","w">>
PFN        == <<"P","F","N">>
PROC       == <<"P","R","O","C">>

\* proc_t that keeps the gl prefix in the field name
proc_t_keeps_prefix(proc) ==
    [p   |-> proc,
     p_s |-> Gl3wPrefix \o proc,
     p_t |-> PFN \o upper(proc) \o PROC]

proc_t(proc) ==
    [p   |-> proc,
     p_s |-> Gl3wPrefix \o DropTwo(proc),
     p_t |-> PFN \o upper(proc) \o PROC]

\* '    {0[p_t]: <52} {0[p_s]};'
FieldLine(proc) == [type |-> proc_t(proc).p_t, name |-> proc_t(proc).p_s]

\* '#define {0[p]: <45} ((GL3W_CONTEXT_METHOD)->{0[p_s]})'
MacroLine(proc) ==
    [name |-> proc_t(proc).p, accessor |-> "GL3W_CONTEXT_METHOD",
     field |-> proc_t(proc).p_s]

\* '    p->{0[p_s]} = ({0[p_t]})libgl_sym("{0[p]}");'
AssignLine(proc) ==
    [field |-> proc_t(proc).p_s, cast |-> proc_t(proc).p_t,
     symbol |-> proc_t(proc).p]

(***************************************************************************)
(* The generator run                                                       *)
(***************************************************************************)
GenInit ==
    /\ file \in Files
    /\ pos = 1
    /\ procs = <<>>
    /\ gpc = "parse"
    /\ k = 1
    /\ hFields = <<>>
    /\ hMacros = <<>>
    /\ cAssigns = <<>>

\* one iteration of 'for line in f'
ParseLine ==
    /\ gpc = "parse"
    /\ pos <= Len(file)
    /\ procs' = IF p_match(file[pos]) # None
                THEN Append(procs, p_match(file[pos]))
                ELSE procs
    /\ pos' = pos + 1
    /\ UNCHANGED <<file, gpc, k, hFields, hMacros, cAssigns>>

\* end of the loop, procs.sort()
SortProcs ==
    /\ gpc = "parse"
    /\ pos > Len(file)
    /\ procs' = sort(procs)
    /\ gpc' = "fields"
    /\ k' = 1
    /\ UNCHANGED <<file, pos, hFields, hMacros, cAssigns>>

\* the loop writing the struct fields of gl3w.h
EmitField ==
    /\ gpc = "fields"
    /\ IF k <= Len(procs)
       THEN /\ hFields' = Append(hFields, FieldLine(procs[k]))
            /\ k' = k + 1
            /\ gpc' = gpc
       ELSE /\ hFields' = hFields
            /\ k' = 1
            /\ gpc' = "macros"
    /\ UNCHANGED <<file, pos, procs, hMacros, cAssigns>>

\* the loop writing the macros of gl3w.h
EmitMacro ==
    /\ gpc = "macros"
    /\ IF k <= Len(procs)
       THEN /\ hMacros' = Append(hMacros, MacroLine(procs[k]))
            /\ k' = k + 1
            /\ gpc' = gpc
       ELSE /\ hMacros' = hMacros
            /\ k' = 1
            /\ gpc' = "assigns"
    /\ UNCHANGED <<file, pos, procs, hFields, cAssigns>>

\* the loop writing the body of setup_context in gl3w.c
EmitAssign ==
    /\ gpc = "assigns"
    /\ IF k <= Len(procs)
       THEN /\ cAssigns' = Append(cAssigns, AssignLine(procs[k]))
            /\ k' = k + 1
            /\ gpc' = gpc
       ELSE /\ cAssigns' = cAssigns
            /\ k' = k
            /\ gpc' = "done"
    /\ UNCHANGED <<file, pos, procs, hFields, hMacros>>

GenNext ==
    \/ ParseLine
    \/ SortProcs
    \/ EmitField
    \/ EmitMacro
    \/ EmitAssign

(***************************************************************************)
(* The emitted gl3w.c                                                      *)
(***************************************************************************)
Ctxs == {"A", "B"}                         \* the caller's GL3WContext records

\* the names setup_context resolves, in the order the generator emits them
RtProcs  == <<"glClear", "glGetIntegerv">>
RtNames  == {RtProcs[n] : n \in DOMAIN RtProcs}
VersionQuery == "glGetIntegerv"

NULL == "NULL"
LIB  == "H"       \* the handle the OS gives for the GL library

\* struct _GL3WContext after memset(context, 0, sizeof(*context))
ZeroRec  == [major |-> 0, minor |-> 0, ptr |-> [f \in RtNames |-> NULL]]
\* storage the caller has not initialised: zero, or whatever was there
StaleRec == [major |-> MaxMajor, minor |-> MaxMinor, ptr |-> [f \in RtNames |-> "stale"]]

Majors == 2..MaxMajor            \* GL_MAJOR_VERSION as the context reports it
Minors == 0..MaxMinor            \* GL_MINOR_VERSION as the context reports it
ReqMajors == 1..MaxMajor         \* versions a caller asks gl3wIsSupported for
ReqMinors == 0..MaxMinor

\* where a name can be found: by the extension hook (wglGetProcAddress,
\* glXGetProcAddress; there is none on Apple), in the library, or nowhere
Sources(pf) == IF pf = "apple" THEN {"none", "lib"} ELSE {"none", "hook", "lib"}

Envs(pf) ==
    [openOk : BOOLEAN,
     src    : [RtNames -> Sources(pf)],
     global : IF pf = "posix" THEN BOOLEAN ELSE {FALSE},
     major  : Majors,
     minor  : Minors]

NoFirst == [set |-> FALSE, rec |-> ZeroRec, ret |-> 0]

NoCall == [op |-> "none", c |-> "-", major |-> 0, minor |-> 0, name |-> "-", pre |-> ZeroRec]

Ev(e, f) == [ev |-> e, f |-> f]

RtInit ==
    /\ platform \in {"win32", "apple", "posix"}
    /\ ndebug \in IF platform = "apple" THEN BOOLEAN ELSE {FALSE}
    /\ env \in Envs(platform)
    /\ libgl = NULL
    /\ refs = 0
    /\ urlLive = FALSE
    /\ ctx \in [Ctxs -> {ZeroRec, StaleRec}]
    /\ pc = "idle"
    /\ cur = "A"
    /\ i = 1
    /\ ret = -1
    /\ call = NoCall
    /\ hist = [c \in Ctxs |-> <<>>]
    /\ trace = <<>>
    /\ first = [c \in Ctxs |-> NoFirst]
    /\ opens = 0
    /\ closes = 0
    /\ inits = 0
    /\ shutdowns = 0
    /\ storedCloses = 0

\* libgl_open: the handle it stores
libgl_open_handle == IF env.openOk THEN LIB ELSE NULL

\* libgl_open that asserts the handle on every platform
libgl_open_aborts_everywhere == ~ndebug /\ libgl_open_handle = NULL

\* libgl_open: whether the Apple assert(bundle != NULL) fires
libgl_open_aborts == platform = "apple" /\ ~ndebug /\ libgl_open_handle = NULL

\* libgl_sym(proc): the values it can return, "crash" when the call faults.
\* The hook is tried first, then the library through the stored handle.
libgl_sym(proc) ==
    IF platform # "apple" /\ env.src[proc] = "hook" THEN {"hook"}
    ELSE IF libgl = NULL
         THEN IF platform = "apple" THEN {NULL, "crash"}
              ELSE IF platform = "posix" /\ env.global /\ env.src[proc] = "lib"
                   THEN {"lib"}
                   ELSE {NULL}
    ELSE IF env.src[proc] = "lib" THEN {"lib"}
    ELSE {NULL}

\* libgl_close: "ok" when the OS call returns, "crash" when it faults
libgl_close_outcomes ==
    IF libgl = NULL
    THEN IF platform = "win32" THEN {"ok"}
         ELSE IF platform = "apple" THEN {"crash"}
         ELSE {"ok", "crash"}
    ELSE IF refs = 0 \/ (platform = "apple" /\ ~urlLive) THEN {"ok", "crash"}
    ELSE {"ok"}

\* setup_context that wants every field resolved
setup_result_all_fields(rec) ==
    IF rec.major < 3 \/ \E f \in RtNames : rec.ptr[f] = NULL THEN 0 ELSE 1

\* the value setup_context returns once both version fields are read
setup_result(rec) == IF rec.major < 3 THEN 0 ELSE 1

\* gl3wIsSupported that compares the minor whatever the majors are
gl3wIsSupported_minor_always(rec, major, minor) ==
    IF rec.major < 3 THEN 0
    ELSE IF rec.major >= major /\ rec.minor >= minor THEN 1 ELSE 0

\* gl3wIsSupported, with C's int results of the comparisons
gl3wIsSupported(rec, major, minor) ==
    IF rec.major < 3 THEN 0
    ELSE IF rec.major = major
         THEN (IF rec.minor >= minor THEN 1 ELSE 0)
         ELSE (IF rec.major >= major THEN 1 ELSE 0)

\* the last call that completed on record c
last(c) == IF hist[c] = <<>> THEN "none" ELSE hist[c][Len(hist[c])]

Budget == inits + shutdowns < MaxCalls

\* what the first completed gl3wInit on a record left behind
Remember(c, rec, r) ==
    IF first[c].set THEN first
    ELSE [first EXCEPT ![c] = [set |-> TRUE, rec |-> rec, ret |-> r]]

\* ---- gl3wInit ----

\* int gl3wInit(context): entry and libgl_open()
Init_open(c) ==
    /\ pc = "idle"
    /\ Budget
    /\ inits' = inits + 1
    /\ opens' = opens + 1
    /\ libgl' = libgl_open_handle
    /\ refs' = IF libgl_open_handle # NULL THEN refs + 1 ELSE refs
    /\ urlLive' = (platform = "apple")
    /\ storedCloses' = 0
    /\ pc' = IF libgl_open_aborts THEN "aborted" ELSE "memset"
    /\ cur' = c
    /\ trace' = <<Ev("open", "-")>>
    /\ call' = [NoCall EXCEPT !.op = "init", !.c = c, !.pre = ctx[c]]
    /\ ret' = -1
    /\ UNCHANGED <<platform, ndebug, env, ctx, i, hist, first, closes, shutdowns>>

\* gl3wInit without its memset
Init_memset_missing ==
    /\ pc = "memset"
    /\ trace' = Append(trace, Ev("zero", "-"))
    /\ i' = 1
    /\ pc' = "resolve"
    /\ UNCHANGED <<platform, ndebug, env, libgl, refs, urlLive, ctx, cur, ret,
                   call, hist, first, opens, closes, inits, shutdowns, storedCloses>>

\* memset(context, 0, sizeof(*context)) of gl3wInit
Init_memset ==
    /\ pc = "memset"
    /\ ctx' = [ctx EXCEPT ![cur] = ZeroRec]
    /\ trace' = Append(trace, Ev("zero", "-"))
    /\ i' = 1
    /\ pc' = "resolve"
    /\ UNCHANGED <<platform, ndebug, env, libgl, refs, urlLive, cur, ret,
                   call, hist, first, opens, closes, inits, shutdowns, storedCloses>>

\* setup_context: p-><field> = libgl_sym("<name>"), one assignment
Setup_assign ==
    /\ pc = "resolve"
    /\ \E v \in libgl_sym(RtProcs[i]) :
          IF v = "crash"
          THEN /\ pc' = "crashed"
               /\ UNCHANGED <<ctx, trace, i>>
          ELSE /\ ctx' = [ctx EXCEPT ![cur].ptr[RtProcs[i]] = v]
               /\ trace' = Append(trace, Ev("assign", RtProcs[i]))
               /\ i' = i + 1
               /\ pc' = IF i = Len(RtProcs) THEN "check" ELSE "resolve"
    /\ UNCHANGED <<platform, ndebug, env, libgl, refs, urlLive, cur, ret,
                   call, hist, first, opens, closes, inits, shutdowns, storedCloses>>

\* setup_context without the test of the glGetIntegerv field
Setup_check_missing ==
    /\ pc = "check"
    /\ pc' = "major"
    /\ UNCHANGED <<platform, ndebug, env, libgl, refs, urlLive, ctx, cur, i, ret,
                   call, hist, trace, first, opens, closes, inits, shutdowns,
                   storedCloses>>

\* setup_context that closes the library before it reports failure
Setup_check_closes ==
    /\ pc = "check"
    /\ IF ctx[cur].ptr[VersionQuery] = NULL
       THEN /\ ret' = 0
            /\ pc' = "idle"
            /\ hist' = [hist EXCEPT ![cur] = Append(@, "init0")]
            /\ first' = Remember(cur, ctx[cur], 0)
            /\ closes' = closes + 1
            /\ storedCloses' = storedCloses + 1
            /\ refs' = IF libgl # NULL /\ refs > 0 THEN refs - 1 ELSE refs
       ELSE /\ pc' = "major"
            /\ UNCHANGED <<ret, hist, first, closes, storedCloses, refs>>
    /\ UNCHANGED <<platform, ndebug, env, libgl, urlLive, ctx, cur, i,
                   call, trace, opens, inits, shutdowns>>

\* setup_context: if (!p->gl3wGetIntegerv) return 0;
Setup_check ==
    /\ pc = "check"
    /\ IF ctx[cur].ptr[VersionQuery] = NULL
       THEN /\ ret' = 0
            /\ pc' = "idle"
            /\ hist' = [hist EXCEPT ![cur] = Append(@, "init0")]
            /\ first' = Remember(cur, ctx[cur], 0)
       ELSE /\ pc' = "major"
            /\ UNCHANGED <<ret, hist, first>>
    /\ UNCHANGED <<platform, ndebug, env, libgl, refs, urlLive, ctx, cur, i,
                   call, trace, opens, closes, inits, shutdowns, storedCloses>>

\* setup_context: p->gl3wGetIntegerv(GL_MAJOR_VERSION, &p->major);
Setup_major ==
    /\ pc = "major"
    /\ ctx' = [ctx EXCEPT ![cur].major = env.major]
    /\ trace' = Append(trace, Ev("query", "major"))
    /\ pc' = "minor"
    /\ UNCHANGED <<platform, ndebug, env, libgl, refs, urlLive, cur, i, ret,
                   call, hist, first, opens, closes, inits, shutdowns, storedCloses>>

\* setup_context: p->gl3wGetIntegerv(GL_MINOR_VERSION, &p->minor);
Setup_minor ==
    /\ pc = "minor"
    /\ ctx' = [ctx EXCEPT ![cur].minor = env.minor]
    /\ trace' = Append(trace, Ev("query", "minor"))
    /\ pc' = "version"
    /\ UNCHANGED <<platform, ndebug, env, libgl, refs, urlLive, cur, i, ret,
                   call, hist, first, opens, closes, inits, shutdowns, storedCloses>>

\* setup_context: the major < 3 test; gl3wInit returns its result
Setup_return ==
    /\ pc = "version"
    /\ ret' = setup_result(ctx[cur])
    /\ pc' = "idle"
    /\ hist' = [hist EXCEPT ![cur] =
                    Append(@, IF setup_result(ctx[cur]) = 1 THEN "init1" ELSE "init0")]
    /\ first' = Remember(cur, ctx[cur], setup_result(ctx[cur]))
    /\ UNCHANGED <<platform, ndebug, env, libgl, refs, urlLive, ctx, cur, i,
                   call, trace, opens, closes, inits, shutdowns, storedCloses>>

\* ---- gl3wShutdown ----

\* gl3wShutdown that closes only when no other record holds a pointer
Shutdown_close_counted(c) ==
    /\ pc = "idle"
    /\ Budget
    /\ shutdowns' = shutdowns + 1
    /\ IF \E d \in Ctxs \ {c} : \E f \in RtNames : ctx[d].ptr[f] \notin {NULL, "stale"}
       THEN /\ pc' = "shutzero"
            /\ UNCHANGED <<closes, storedCloses, refs, urlLive>>
       ELSE /\ closes' = closes + 1
            /\ storedCloses' = storedCloses + 1
            /\ \E o \in libgl_close_outcomes :
                  pc' = IF o = "crash" THEN "crashed" ELSE "shutzero"
            /\ refs' = IF libgl # NULL /\ refs > 0 THEN refs - 1 ELSE refs
            /\ urlLive' = FALSE
    /\ cur' = c
    /\ call' = [NoCall EXCEPT !.op = "shutdown", !.c = c, !.pre = ctx[c]]
    /\ ret' = -1
    /\ UNCHANGED <<platform, ndebug, env, libgl, ctx, i, hist, trace, first,
                   opens, inits>>

\* void gl3wShutdown(context): entry and libgl_close()
Shutdown_close(c) ==
    /\ pc = "idle"
    /\ Budget
    /\ shutdowns' = shutdowns + 1
    /\ closes' = closes + 1
    /\ storedCloses' = storedCloses + 1
    /\ \E o \in libgl_close_outcomes :
          pc' = IF o = "crash" THEN "crashed" ELSE "shutzero"
    /\ refs' = IF libgl # NULL /\ refs > 0 THEN refs - 1 ELSE refs
    /\ urlLive' = FALSE
    /\ cur' = c
    /\ call' = [NoCall EXCEPT !.op = "shutdown", !.c = c, !.pre = ctx[c]]
    /\ ret' = -1
    /\ UNCHANGED <<platform, ndebug, env, libgl, ctx, i, hist, trace, first,
                   opens, inits>>

\* gl3wShutdown without its memset
Shutdown_memset_missing ==
    /\ pc = "shutzero"
    /\ hist' = [hist EXCEPT ![cur] = Append(@, "shutdown")]
    /\ pc' = "idle"
    /\ UNCHANGED <<platform, ndebug, env, libgl, refs, urlLive, ctx, cur, i, ret,
                   call, trace, first, opens, closes, inits, shutdowns, storedCloses>>

\* memset(context, 0, sizeof(*context)) of gl3wShutdown
Shutdown_memset ==
    /\ pc = "shutzero"
    /\ ctx' = [ctx EXCEPT ![cur] = ZeroRec]
    /\ hist' = [hist EXCEPT ![cur] = Append(@, "shutdown")]
    /\ pc' = "idle"
    /\ UNCHANGED <<platform, ndebug, env, libgl, refs, urlLive, cur, i, ret,
                   call, trace, first, opens, closes, inits, shutdowns, storedCloses>>

\* ---- gl3wIsSupported ----

IsSupported(c, major, minor) ==
    /\ pc = "idle"
    /\ ret' = gl3wIsSupported(ctx[c], major, minor)
    /\ call' = [NoCall EXCEPT !.op = "supported", !.c = c, !.major = major,
                              !.minor = minor, !.pre = ctx[c]]
    /\ UNCHANGED <<platform, ndebug, env, libgl, refs, urlLive, ctx, pc, cur, i,
                   hist, trace, first, opens, closes, inits, shutdowns, storedCloses>>

RtNext ==
    \/ \E c \in Ctxs : Init_open(c)
    \/ Init_memset
    \/ Setup_assign
    \/ Setup_check
    \/ Setup_major
    \/ Setup_minor
    \/ Setup_return
    \/ \E c \in Ctxs : Shutdown_close(c)
    \/ Shutdown_memset

(***************************************************************************)
(* Specifications                                                          *)
(***************************************************************************)
\* the loader is not running while the generator runs, and conversely
RtOff ==
    /\ platform = "posix" /\ ndebug = FALSE
    /\ env = [openOk |-> TRUE, src |-> [f \in RtNames |-> "lib"], global |-> FALSE,
              major |-> MaxMajor, minor |-> 0]
    /\ libgl = NULL /\ refs = 0 /\ urlLive = FALSE
    /\ ctx = [c \in Ctxs |-> ZeroRec]
    /\ pc = "off" /\ cur = "A" /\ i = 1 /\ ret = -1
    /\ call = NoCall
    /\ hist = [c \in Ctxs |-> <<>>]
    /\ trace = <<>>
    /\ first = [c \in Ctxs |-> NoFirst]
    /\ opens = 0 /\ closes = 0 /\ inits = 0 /\ shutdowns = 0 /\ storedCloses = 0

GenOff ==
    /\ file = <<>> /\ pos = 1 /\ procs = <<>> /\ gpc = "off" /\ k = 1
    /\ hFields = <<>> /\ hMacros = <<>> /\ cAssigns = <<>>

Init == RtInit /\ GenOff
Next == RtNext /\ UNCHANGED genVars
Spec == Init /\ [][Next]_vars

\* records of any version content, resolved or not
QueryRecs ==
    [major : 0..MaxMajor, minor : 0..MaxMinor,
     ptr : {[f \in RtNames |-> NULL], [f \in RtNames |-> "lib"]}]

QueryInit ==
    /\ platform = "posix" /\ ndebug = FALSE
    /\ env = [openOk |-> TRUE, src |-> [f \in RtNames |-> "lib"], global |-> FALSE,
              major |-> MaxMajor, minor |-> 0]
    /\ libgl = NULL /\ refs = 0 /\ urlLive = FALSE
    /\ ctx \in [Ctxs -> QueryRecs]
    /\ pc = "idle" /\ cur = "A" /\ i = 1 /\ ret = -1
    /\ call = NoCall
    /\ hist = [c \in Ctxs |-> <<>>]
    /\ trace = <<>>
    /\ first = [c \in Ctxs |-> NoFirst]
    /\ opens = 0 /\ closes = 0 /\ inits = 0 /\ shutdowns = 0 /\ storedCloses = 0
    /\ GenOff

QueryNext ==
    /\ \E c \in Ctxs, major \in ReqMajors, minor \in ReqMinors : IsSupported(c, major, minor)
    /\ UNCHANGED genVars

QuerySpec == QueryInit /\ [][QueryNext]_vars

GenSpecInit == GenInit /\ RtOff
GenSpecNext == GenNext /\ UNCHANGED rtVars
GenSpec == GenSpecInit /\ [][GenSpecNext]_vars

(***************************************************************************)
(* Properties of the generator run (GenSpec)                               *)
(***************************************************************************)
GlClear        == <<"g","l","C","l","e","a","r">>
Gl3wClear      == <<"g","l","3","w","C","l","e","a","r">>
PfnGlClearProc == <<"P","F","N","G","L","C","L","E","A","R","P","R","O","C">>

\* the name of the field of declaration d: "gl3w", then d from its third character on
IsFieldNameOf(f, d) ==
    /\ Len(f) = 4 + (IF Len(d) > 2 THEN Len(d) - 2 ELSE 0)
    /\ f[1] = "g" /\ f[2] = "l" /\ f[3] = "3" /\ f[4] = "w"
    /\ \A n \in 5..Len(f) : f[n] = d[n - 2]

\* the header has the glClear line once and no other line that declares a function
OnlyGlClearMatches ==
    /\ Cardinality({n \in DOMAIN file : file[n] = LineClear}) = 1
    /\ \A n \in DOMAIN file :
          file[n] \in {LineClear, LineDefine, LineTypedef, LineNoName}

\* C3: once the list has been sorted for the emitter it is ascending and
\* holds every name exactly once, whatever the input text was, repeated
\* matching lines included.
C3_SortedNoDuplicates ==
    gpc \in {"fields", "macros", "assigns", "done"} =>
        /\ \A n \in 1..(Len(procs) - 1) :
              procs[n] = procs[n + 1] \/ StrLess(procs[n], procs[n + 1])
        /\ \A n, m \in DOMAIN procs : procs[n] = procs[m] => n = m

\* C5: the emitter writes one field, one macro and one resolve assignment
\* per entry of the list, in list order; the field is named gl3w + name[2:],
\* and the macro of a name expands to the accessor dereferenced at that
\* field.  A header whose only matching line declares glClear gives the one
\* declaration glClear, the one field gl3wClear and the one macro glClear.
C5_OnePerDeclaration ==
    /\ Len(hFields) <= Len(procs)
    /\ Len(hMacros) <= Len(procs)
    /\ Len(cAssigns) <= Len(procs)
    /\ gpc \in {"macros", "assigns", "done"} => Len(hFields) = Len(procs)
    /\ gpc \in {"assigns", "done"} => Len(hMacros) = Len(procs)
    /\ gpc = "done" => Len(cAssigns) = Len(procs)
    /\ \A n \in DOMAIN hFields : IsFieldNameOf(hFields[n].name, procs[n])
    /\ \A n \in DOMAIN hMacros :
          /\ hMacros[n].name = procs[n]
          /\ hMacros[n].accessor = "GL3W_CONTEXT_METHOD"
          /\ IsFieldNameOf(hMacros[n].field, procs[n])
    /\ \A n \in DOMAIN cAssigns :
          /\ cAssigns[n].symbol = procs[n]
          /\ IsFieldNameOf(cAssigns[n].field, procs[n])
    /\ (gpc = "done" /\ OnlyGlClearMatches) =>
          /\ procs = <<GlClear>>
          /\ hFields = <<[type |-> PfnGlClearProc, name |-> Gl3wClear]>>
          /\ hMacros = <<[name |-> GlClear, accessor |-> "GL3W_CONTEXT_METHOD",
                          field |-> Gl3wClear]>>
          /\ cAssigns = <<[field |-> Gl3wClear, cast |-> PfnGlClearProc,
                           symbol |-> GlClear]>>

\* a finished run over a header with the glClear line and two other matching lines
C5_Witness ==
    /\ gpc = "done"
    /\ file = <<LineFlush, LineClear, LineTwice>>
    /\ Len(hFields) = 3 /\ Len(hMacros) = 3 /\ Len(cAssigns) = 3
    /\ hMacros[2].name = GlClear
    /\ hMacros[2].field = Gl3wClear

(***************************************************************************)
(* Properties of the emitted loader (Spec, QuerySpec)                      *)
(***************************************************************************)
InitReturned == call.op = "init" /\ pc = "idle"
Settled(c)   == pc = "idle" \/ cur # c      \* no call is part-way through record c
Traced(e, f) == \E n \in DOMAIN trace : trace[n] = Ev(e, f)

\* C1: gl3wInit returns 1 exactly when the glGetIntegerv field resolved to a
\* non-null value and the reported major version is at least 3, and 0
\* otherwise; the other pointer fields do not enter into it.
C1_InitResult ==
    InitReturned =>
        /\ ret \in {0, 1}
        /\ ret = 1 <=> (ctx[call.c].ptr[VersionQuery] # NULL /\ env.major >= 3)

\* gl3wInit returned 1 although glClear did not resolve
C1_Witness ==
    /\ InitReturned
    /\ ret = 1
    /\ ctx[call.c].ptr["glClear"] = NULL

\* C2: gl3wIsSupported leaves the record as it found it and answers 0 when
\* the record's major is below 3, else minor >= requested minor when the
\* majors are equal, else major > requested major; asked for 3.0 it answers
\* 1 exactly when the record's major is at least 3.
C2_IsSupported ==
    call.op = "supported" =>
        LET cM == call.pre.major
            cm == call.pre.minor
        IN  /\ ctx[call.c] = call.pre
            /\ ret \in {0, 1}
            /\ ret = 1 <=> /\ cM >= 3
                           /\ IF cM = call.major THEN cm >= call.minor
                                                 ELSE cM > call.major
            /\ (call.major = 3 /\ call.minor = 0) => (ret = 1 <=> cM >= 3)

\* a 4.0 record asked for 3.1: supported, though its minor is the smaller one
C2_Witness ==
    /\ call.op = "supported"
    /\ call.pre.major = 4 /\ call.pre.minor = 0
    /\ call.major = 3 /\ call.minor = 1
    /\ ret = 1

\* C4: in a fixed environment every completed gl3wInit leaves the record as
\* the first completed gl3wInit on it did and returns what that one
\* returned, whatever the record held before (caller garbage, the zeroes of
\* gl3wShutdown, an earlier result); so any two initialised records agree.
C4_Reinit ==
    /\ \A c \in Ctxs :
          (Settled(c) /\ last(c) \in {"init0", "init1"}) =>
              /\ first[c].set
              /\ ctx[c] = first[c].rec
              /\ (last(c) = "init1") <=> (first[c].ret = 1)
    /\ \A c, d \in Ctxs :
          (pc = "idle" /\ last(c) \in {"init0", "init1"} /\ last(d) \in {"init0", "init1"}) =>
              ctx[c] = ctx[d] /\ last(c) = last(d)

\* init; shutdown; init on a record, the version query unresolved both times
C4_Witness ==
    \E c \in Ctxs :
        /\ pc = "idle"
        /\ hist[c] = <<"init0", "shutdown", "init0">>
        /\ ctx[c].ptr[VersionQuery] = NULL
        /\ ctx[c].ptr["glClear"] # NULL

\* C6 as stated: on all three platforms a failed open is left unchecked and
\* gl3wInit still runs to its return.
C6_OpenFailureNeverAborts ==
    (call.op = "init" /\ libgl = NULL) => pc \notin {"aborted", "crashed"}

\* C6, amended: on the Windows and POSIX variants a failed open is not
\* checked, gl3wInit zeroes the record, assigns every pointer and returns 0
\* or 1; on the Apple variant assert(bundle != NULL) checks it, and with
\* assertions compiled in a failed open aborts gl3wInit before the record is
\* touched.
C6_OpenFailure ==
    (call.op = "init" /\ libgl = NULL) =>
        /\ platform \in {"win32", "posix"} =>
              /\ pc \notin {"aborted", "crashed"}
              /\ pc = "idle" =>
                    /\ ret \in {0, 1}
                    /\ Traced("zero", "-")
                    /\ \A f \in RtNames : Traced("assign", f)
        /\ (platform = "apple" /\ ~ndebug) =>
              /\ pc = "aborted"
              /\ ctx[call.c] = call.pre

\* Windows: the open failed, gl3wInit went through a stale record and returned 0
C6_Witness ==
    /\ platform = "win32"
    /\ InitReturned
    /\ libgl = NULL
    /\ call.pre = StaleRec
    /\ ctx[call.c] = ZeroRec
    /\ ret = 0

\* C7: a gl3wInit call goes open, zero, one assignment per field in order,
\* then the two version queries; a query is made only with the
\* glGetIntegerv field assigned and non-null; with that field null the call
\* returns without a query and major and minor are the 0 of the memset.
InitOrder ==
    <<Ev("open", "-"), Ev("zero", "-")>>
    \o [n \in DOMAIN RtProcs |-> Ev("assign", RtProcs[n])]
    \o <<Ev("query", "major"), Ev("query", "minor")>>

C7_InitOrder ==
    /\ Len(trace) <= Len(InitOrder)
    /\ \A n \in DOMAIN trace : trace[n] = InitOrder[n]
    /\ call.op = "init" =>
          /\ (\E n \in DOMAIN trace : trace[n].ev = "query") =>
                /\ Traced("assign", VersionQuery)
                /\ ctx[call.c].ptr[VersionQuery] # NULL
          /\ pc = "idle" =>
                /\ Len(trace) >= 2 + Len(RtProcs)
                /\ ctx[call.c].ptr[VersionQuery] = NULL =>
                      /\ Len(trace) = 2 + Len(RtProcs)
                      /\ ctx[call.c].major = 0
                      /\ ctx[call.c].minor = 0
                /\ ctx[call.c].ptr[VersionQuery] # NULL =>
                      trace = InitOrder

\* gl3wInit on a stale record returned with glGetIntegerv null: no query, 0.0
C7_Witness ==
    /\ InitReturned
    /\ call.pre = StaleRec
    /\ ctx[call.c].ptr[VersionQuery] = NULL
    /\ ctx[call.c].ptr["glClear"] # NULL
    /\ ctx[call.c].major = 0 /\ ctx[call.c].minor = 0
    /\ Len(trace) = 4

\* C8: there is one handle and no count of its users: every gl3wInit
\* overwrites it with what the open gives, every gl3wShutdown passes it to
\* close, whatever the other records hold, and leaves the closed value in
\* place.
C8_NoReferenceCount ==
    [][ /\ inits' = inits + 1 =>
              /\ libgl' = libgl_open_handle
              /\ storedCloses' = 0
        /\ shutdowns' = shutdowns + 1 =>
              /\ storedCloses' = storedCloses + 1
              /\ closes' = closes + 1
              /\ libgl' = libgl ]_vars

\* init(A), init(B), shutdown(A), shutdown(B): the handle the second init
\* stored has been passed to close twice
C8_Witness ==
    /\ pc = "idle"
    /\ hist["A"] = <<"init1", "shutdown">>
    /\ hist["B"] = <<"init1", "shutdown">>
    /\ inits = 2 /\ shutdowns = 2
    /\ storedCloses = 2
    /\ libgl = LIB

\* C9: a record whose last completed call is a gl3wInit that returned 0 or
\* a gl3wShutdown is unsupported for every requested version, and after
\* gl3wShutdown it is all zero.
C9_Unsupported ==
    /\ \A c \in Ctxs :
          (Settled(c) /\ last(c) \in {"init0", "shutdown"}) =>
              /\ \A major \in ReqMajors, minor \in ReqMinors :
                    gl3wIsSupported(ctx[c], major, minor) = 0
              /\ last(c) = "shutdown" => ctx[c] = ZeroRec

\* on a context that reports major 2: one record initialised (returning 0)
\* and shut down, the other initialised (returning 0) from stale storage
C9_Witness ==
    /\ pc = "idle"
    /\ hist["A"] = <<"init0", "shutdown">>
    /\ hist["B"] = <<"init0">>
    /\ ctx["A"] = ZeroRec
    /\ ctx["B"].ptr[VersionQuery] # NULL
    /\ ctx["B"].major = 2
    /\ gl3wIsSupported(ctx["A"], 3, 0) = 0
    /\ gl3wIsSupported(ctx["B"], 1, 0) = 0

\* C10: each gl3wInit opens once and closes nothing, each gl3wShutdown
\* closes once; after a gl3wInit that returned 0 the handle it opened is
\* still open.
C10_OpenClose ==
    /\ opens = inits
    /\ closes = shutdowns
    /\ call.op = "init" => storedCloses = 0
    /\ (InitReturned /\ ret = 0 /\ env.openOk) =>
          /\ libgl = LIB
          /\ refs >= 1

\* the second gl3wInit returned 0 and two opens are outstanding
C10_Witness ==
    /\ InitReturned
    /\ ret = 0
    /\ inits = 2 /\ opens = 2 /\ closes = 0
    /\ libgl = LIB
    /\ refs = 2

====
